---- MODULE Spec2Model ----
(***************************************************************************)
(* Model of ssl_tools: the CPC LightningModule (models/ssl/cpc.py) and the *)
(* TNCTrain experiment (experiments/har_classification/tnc.py).            *)
(*                                                                         *)
(* A tensor is modelled by its shape (a sequence of dimension sizes).  A   *)
(* density ratio is modelled by the index of the window it belongs to, so  *)
(* X_N is the sequence of window indices whose density ratios it holds.    *)
(* Python indices are kept 0-based; only positions inside TLA+ sequences   *)
(* are 1-based.                                                            *)
(***************************************************************************)
EXTENDS Integers, Sequences, FiniteSets

\* ------------------------------------------------------------------ bounds
MaxWindow == 2
MaxNSize == 2
MaxEncoding == 1
MaxBatch == 2
MaxChannels == 1
MaxT == 12
MaxTLong == 42
MaxClasses == 3
MaxEncodingSize == 2
MaxInChannel == 2

\* ------------------------------------------------------- program constants
\* forward keeps CenterSpan * window_size steps on each side of the centre
CenterSpan == 20
\* forward draws the centre CenterMargin * window_size away from both ends
CenterMargin == 5
\* _shared_step asserts T > MinSampleFactor * window_size
MinSampleFactor == 5

VARIABLES
    window_size,          \* CPC.window_size
    n_size,               \* CPC.n_size
    encoder_output_size,  \* second dimension of the encoder's output
    batch,                \* shape of the batch handed to the step, <<B, C, T>>
    pc,                   \* "ready" before the step, "done" after it
    step,                 \* the step method that ran
    error,                \* the exception that ended the step, or "none"
    forward_called,       \* whether CPC.forward was entered
    fwd,                  \* the locals of CPC.forward when it stopped
                          \* (sample is bound at line 88 and rebound at 104,
                          \* time_len at line 89 and again at line 111)
    labels,               \* the labels tensor of _shared_step (a sequence)
    loss,                 \* what loss_function was applied to
    logged,               \* the names self.log was called with
    returned,             \* shape of the tensor the step method returned
    tnc,                  \* the fields of the TNCTrain instance
    tnc_call,             \* the TNCTrain method that ran
    tnc_model             \* the model that method built

cpc_vars == <<window_size, n_size, encoder_output_size, batch, pc, step, error,
              forward_called, fwd, labels, loss, logged, returned>>
tnc_vars == <<tnc, tnc_call, tnc_model>>
vars == <<cpc_vars, tnc_vars>>

Max(a, b) == IF a >= b THEN a ELSE b
Min(a, b) == IF a <= b THEN a ELSE b

\* an integer local that was never assigned
Unset == 0 - 1

\* ------------------------------------------------------------ numpy / torch
\* np.random.randint(low, high): the values it can return, low..high-1.
\* The empty set stands for its ValueError("low >= high").
randint(low, high) == IF low >= high THEN {} ELSE low..(high - 1)

\* np.random.choice(a, size): size draws from a, with replacement.  The empty
\* set stands for its ValueError (a empty and size > 0).
choice(a, size) == IF a = {} /\ size > 0 THEN {} ELSE [1..size -> a]

\* range(lo, hi) as a set
range(lo, hi) == {i \in lo..(hi - 1) : TRUE}

\* Tensor.squeeze(0): drop dimension 0 when its size is 1
squeeze0(shape) == IF Len(shape) > 0 /\ shape[1] = 1 THEN Tail(shape) ELSE shape

\* where Python puts the slice bound i in a dimension of size n
slice_bound(n, i) == IF i < 0 THEN Max(n + i, 0) ELSE Min(i, n)

\* length of the Python slice [a:b] of a dimension of size n
slice_len(n, a, b) == Max(0, slice_bound(n, b) - slice_bound(n, a))

\* tensor[:, a:b]: the slice is taken on axis 1, whatever that axis holds
\* (time for a squeezed (C, T) sample, channels for a (B, C, T) one)
slice_axis1(shape, a, b) == [shape EXCEPT ![2] = slice_len(@, a, b)]

\* np.split(ary, sections, axis=-1): the exception it raises, or "none"
np_split_error(shape, sections) ==
    IF sections = 0 THEN "ZeroDivisionError: integer modulo by zero"
    ELSE IF sections < 0 THEN "ValueError: number sections must be larger than 0"
    ELSE IF shape[Len(shape)] % sections # 0
    THEN "ValueError: array split does not result in an equal division"
    ELSE "none"

\* np.split(ary, sections, axis=-1): the shapes of the sections
np_split(shape, sections) ==
    [i \in 1..sections |->
        [shape EXCEPT ![Len(shape)] = shape[Len(shape)] \div sections]]

\* np.stack(arrays, 0): one new leading dimension
np_stack(shapes) == <<Len(shapes)>> \o shapes[1]

\* self.encoder(X_ts): one Z-vector per entry of the leading dimension
encoder(shape, enc_size) == <<shape[1], enc_size>>

\* ------------------------------------------------------------- CPC.forward
NoForward ==
    [stage |-> "none", time_len |-> Unset, random_centering_t |-> Unset,
     start |-> Unset, stop |-> Unset, sample |-> <<>>, X_ts |-> <<>>,
     encodings |-> <<>>, random_t |-> Unset, past |-> {}, future |-> {},
     r |-> {}, rnd_n |-> <<>>, X_N |-> <<>>, X_N_shape |-> <<>>]

\* lines 88-97: the centre of the kept segment
centering(T, ws) == randint(CenterMargin * ws, T - CenterMargin * ws)

\* the start of the segment without the max(0, ...)
segment_start_unclamped(c, ws) == c - CenterSpan * ws

\* lines 104-109: the bounds of the kept segment
segment_start(c, ws) == Max(0, c - CenterSpan * ws)
segment_stop(T, c, ws) == Min(T, c + CenterSpan * ws)

\* line 119: the crop to a multiple of window_size, taken on axis 1
crop(shape, time_len, ws) == slice_axis1(shape, 0, (time_len \div ws) * ws)

\* lines 117-123: the exception np.split raises on the cropped sample
windows_error(shape, time_len, ws) ==
    np_split_error(crop(shape, time_len, ws), time_len \div ws)

\* lines 117-126: the stack of windows
windows(shape, time_len, ws) ==
    np_stack(np_split(crop(shape, time_len, ws), time_len \div ws))

\* the split point drawn from the closed range [2, n - 2]
split_point_closed(n) == 2..(n - 2)

\* line 142: the split point
split_point(n) == randint(2, n - 2)

\* lines 145-146: the windows before and after the split point
past_of(t) == range(0, t)
future_of(t, n) == range(t + 1, n)

\* lines 173-174: the negative set
negatives(t, n) == range(0, t - 2) \cup range(t + 3, n)

\* the positive window put first
cat_X_N_positive_first(rnd_n, t) == <<t + 1>> \o rnd_n

\* lines 178-184: negatives first, the positive window last
cat_X_N(rnd_n, t) == rnd_n \o <<t + 1>>

\* lines 142-185, once the windows are encoded
forward_tail(f, ns) ==
    LET n  == f.encodings[1]
        ts == split_point(n)
    IN  IF ts = {}
        THEN {[f EXCEPT !.stage = "ValueError: low >= high (random_t)"]}
        ELSE UNION {
            LET r  == negatives(t, n)
                g  == [f EXCEPT !.random_t = t, !.past = past_of(t),
                                !.future = future_of(t, n), !.r = r]
                cs == choice(r, ns)
            IN  IF cs = {}
                THEN {[g EXCEPT !.stage = "ValueError: a must be non-empty"]}
                ELSE {[g EXCEPT !.stage = "returned", !.rnd_n = d,
                                !.X_N = cat_X_N(d, t),
                                !.X_N_shape = <<Len(cat_X_N(d, t))>>] : d \in cs}
            : t \in ts}

\* CPC.forward on a sample of shape <<B, C, T>>: every record of locals the
\* call can end with; stage names the exception, or is "returned".  With
\* B = 1 the squeezed sample is (C, T) and axis 1 is time; otherwise the
\* sample stays (B, C, T), axis 1 is the channels and the time axis is
\* neither cut nor cropped.
forward(sample, ws, ns, enc_size) ==
    LET s  == squeeze0(sample)
        T  == s[Len(s)]
        f0 == [NoForward EXCEPT !.sample = s, !.time_len = T]
        cs == centering(T, ws)
    IN  IF cs = {}
        THEN {[f0 EXCEPT !.stage = "ValueError: low >= high (random_centering_t)"]}
        ELSE UNION {
            LET a  == segment_start(c, ws)
                b  == segment_stop(T, c, ws)
                s1 == slice_axis1(s, a, b)
                k  == s1[Len(s1)]
                e  == windows_error(s1, k, ws)
                f1 == [f0 EXCEPT !.random_centering_t = c, !.start = a,
                                 !.stop = b, !.sample = s1, !.time_len = k]
            IN  IF e # "none"
                THEN {[f1 EXCEPT !.stage = e]}
                ELSE forward_tail(
                        [f1 EXCEPT !.X_ts = windows(s1, k, ws),
                                   !.encodings = encoder(windows(s1, k, ws), enc_size)],
                        ns)
            : c \in cs}

\* ------------------------------------------------------ CPC step methods
\* loss_function: cross entropy of X_N.view(1, -1) against labels
loss_function(X_N_shape, lab) == [input |-> <<1, X_N_shape[1]>>, target |-> lab]

\* line 209: the class label handed to the loss
make_labels(X_N) == <<Len(X_N) - 1>>

\* line 214: the name the loss is logged under
log_name(prefix) == prefix \o "_loss"

NoLoss == [input |-> <<>>, target |-> <<>>]
Nothing == [what |-> "nothing", shape |-> <<>>]

\* the length assertion written with >= instead of >
shared_step_assert_ge(b, ws) ==
    IF b[1] # 1 THEN "AssertionError: Batch must be 1 sample only"
    ELSE IF ~(b[Len(b)] >= MinSampleFactor * ws) THEN "AssertionError: Sample too short"
    ELSE "none"

\* the two assertions of _shared_step, in order; "none" when both pass
shared_step_assert(b, ws) ==
    IF b[1] # 1 THEN "AssertionError: Batch must be 1 sample only"
    ELSE IF ~(b[Len(b)] > MinSampleFactor * ws) THEN "AssertionError: Sample too short"
    ELSE "none"

\* _shared_step(batch, batch_idx, prefix)
shared_step(prefix) ==
    /\ pc = "ready"
    /\ pc' = "done"
    /\ step' = prefix
    /\ LET a == shared_step_assert(batch, window_size)
       IN  IF a # "none"
           THEN /\ error' = a
                /\ UNCHANGED <<forward_called, fwd, labels, loss, logged, returned>>
           ELSE \E f \in forward(batch, window_size, n_size, encoder_output_size) :
                /\ forward_called' = TRUE
                /\ fwd' = f
                /\ IF f.stage = "returned"
                   THEN /\ labels' = make_labels(f.X_N)
                        /\ loss' = loss_function(f.X_N_shape, make_labels(f.X_N))
                        /\ logged' = Append(logged, log_name(prefix))
                        /\ returned' = [what |-> "loss", shape |-> <<>>]
                        /\ UNCHANGED error
                   ELSE /\ error' = f.stage
                        /\ UNCHANGED <<labels, loss, logged, returned>>
    /\ UNCHANGED <<window_size, n_size, encoder_output_size, batch, tnc_vars>>

training_step == shared_step("train")
validation_step == shared_step("val")
test_step == shared_step("test")

\* predict_step returns forward(batch) as it is, whatever the batch size
predict_step ==
    /\ pc = "ready"
    /\ pc' = "done"
    /\ step' = "predict"
    /\ \E f \in forward(batch, window_size, n_size, encoder_output_size) :
        /\ forward_called' = TRUE
        /\ fwd' = f
        /\ IF f.stage = "returned"
           THEN /\ returned' = [what |-> "X_N", shape |-> f.X_N_shape]
                /\ UNCHANGED error
           ELSE /\ error' = f.stage
                /\ UNCHANGED returned
    /\ UNCHANGED <<window_size, n_size, encoder_output_size, batch, labels, loss,
                   logged, tnc_vars>>

\* ----------------------------------------------------------------- TNCTrain
NoModel == [class |-> "None"]

\* TNCTrain.__init__ with its default arguments
TNCDefaults ==
    [encoding_size |-> 10, in_channel |-> 6, window_size |-> 60,
     mc_sample_size |-> 20, w |-> "0.05", significance_level |-> "0.01",
     repeat |-> 5, pad_length |-> TRUE, num_classes |-> 6,
     update_backbone |-> FALSE, learning_rate |-> "self.learning_rate"]

\* build_tnc(...) as called at lines 86-92 and 111-116: the arguments it gets
build_tnc(enc, ch, mc, w, lr) ==
    [class |-> "TNC", encoding_size |-> enc, in_channel |-> ch,
     mc_sample_size |-> mc, w |-> w, learning_rate |-> lr, checkpoint |-> "None"]

\* self.load_checkpoint(model, load_backbone)
load_checkpoint(model, path) == [model EXCEPT !.checkpoint = path]

\* TNCTrain.get_pretrain_model
get_pretrain_model(self) ==
    build_tnc(self.encoding_size, self.in_channel, self.mc_sample_size, self.w,
              self.learning_rate)

\* TNCTrain.get_finetune_model(load_backbone)
get_finetune_model(self, load_backbone) ==
    LET built == build_tnc(self.encoding_size, self.in_channel,
                           self.mc_sample_size, self.w, "default")
        model == IF load_backbone # "None"
                 THEN load_checkpoint(built, load_backbone) ELSE built
        classifier == [class |-> "TNCPredictionHead",
                       input_dim |-> self.encoding_size,
                       output_dim |-> self.num_classes]
        task == IF self.num_classes > 2 THEN "multiclass" ELSE "binary"
    IN  [class |-> "SSLDiscriminator", backbone |-> model, head |-> classifier,
         loss_fn |-> "CrossEntropyLoss", learning_rate |-> self.learning_rate,
         metrics |-> [acc |-> [task |-> task, num_classes |-> self.num_classes]]]

\* TNCTrain.get_pretrain_data_module
get_pretrain_data_module(self) ==
    [class |-> "TNCHARDataModule", pad |-> self.pad_length,
     window_size |-> self.window_size, mc_sample_size |-> self.mc_sample_size,
     significance_level |-> self.significance_level, repeat |-> self.repeat]

\* TNCTrain.get_finetune_data_module
get_finetune_data_module(self) ==
    [class |-> "MultiModalHARSeriesDataModule",
     label |-> "standard activity code", features_as_channels |-> TRUE]

Checkpoints == {"None", "backbone.ckpt"}

tnc_returns(name, model) ==
    /\ tnc_call = "none"
    /\ tnc_call' = name
    /\ tnc_model' = model
    /\ UNCHANGED <<tnc, cpc_vars>>

call_get_pretrain_model == tnc_returns("get_pretrain_model", get_pretrain_model(tnc))
call_get_finetune_model ==
    \E ckpt \in Checkpoints :
        tnc_returns("get_finetune_model", get_finetune_model(tnc, ckpt))
call_get_pretrain_data_module ==
    tnc_returns("get_pretrain_data_module", get_pretrain_data_module(tnc))
call_get_finetune_data_module ==
    tnc_returns("get_finetune_data_module", get_finetune_data_module(tnc))

\* ----------------------------------------------------------- specifications
CPCIdle ==
    /\ pc = "ready"
    /\ step = "none"
    /\ error = "none"
    /\ forward_called = FALSE
    /\ fwd = NoForward
    /\ labels = <<>>
    /\ loss = NoLoss
    /\ logged = <<>>
    /\ returned = Nothing

TNCIdle ==
    /\ tnc = TNCDefaults
    /\ tnc_call = "none"
    /\ tnc_model = NoModel

\* a CPC model and one batch of shape (B, C, T) from the data loader
Init ==
    /\ window_size \in 1..MaxWindow
    /\ n_size \in 0..MaxNSize
    /\ encoder_output_size \in 1..MaxEncoding
    /\ batch \in {<<B, C, T>> : B \in 0..MaxBatch, C \in 1..MaxChannels, T \in 0..MaxT}
    /\ CPCIdle
    /\ TNCIdle

Next == training_step \/ validation_step \/ test_step \/ predict_step

Spec == Init /\ [][Next]_vars

\* the same model on long samples, where the kept segment reaches its full
\* span; no negatives are drawn (n_size = 0), the windowing does not read them
InitLong ==
    /\ window_size \in 1..MaxWindow
    /\ n_size = 0
    /\ encoder_output_size = 1
    /\ batch \in {<<B, 1, T>> : B \in 0..MaxBatch, T \in 0..MaxTLong}
    /\ CPCIdle
    /\ TNCIdle

SpecLong == InitLong /\ [][Next]_vars

\* a TNCTrain experiment built from the command line
InitTNC ==
    /\ tnc \in {[TNCDefaults EXCEPT !.encoding_size = e, !.in_channel = c,
                                    !.num_classes = k, !.pad_length = p,
                                    !.update_backbone = u] :
                e \in 1..MaxEncodingSize, c \in 1..MaxInChannel, k \in 2..MaxClasses,
                p \in BOOLEAN, u \in BOOLEAN}
    /\ tnc_call = "none"
    /\ tnc_model = NoModel
    /\ window_size = 4
    /\ n_size = 5
    /\ encoder_output_size = 1
    /\ batch = <<1, 1, 0>>
    /\ CPCIdle

NextTNC ==
    \/ call_get_pretrain_model
    \/ call_get_finetune_model
    \/ call_get_pretrain_data_module
    \/ call_get_finetune_data_module

SpecTNC == InitTNC /\ [][NextTNC]_vars

\* ------------------------------------------------------------------- claims
SharedSteps == {"train", "val", "test"}

\* C1: every batch that passes both assertions of _shared_step gives forward
\* a non-empty range for random_centering_t, and the drawn value c satisfies
\* 5 * window_size <= c <= T - 5 * window_size.
C1_CenteringDrawSucceeds ==
    (step \in SharedSteps /\ forward_called) =>
        /\ fwd.random_centering_t # Unset
        /\ 5 * window_size <= fwd.random_centering_t
        /\ fwd.random_centering_t <= batch[3] - 5 * window_size

\* C2: after a completed forward pass the label given to the loss is
\* len(X_N) - 1 = n_size, the position of X_N that holds the density ratio of
\* window random_t + 1; the n_size positions before it hold density ratios of
\* windows of the negative set r.
C2_LabelIsPositive ==
    (step \in SharedSteps /\ fwd.stage = "returned") =>
        /\ labels = <<n_size>>
        /\ labels[1] = Len(fwd.X_N) - 1
        /\ loss.target = labels
        /\ fwd.X_N[labels[1] + 1] = fwd.random_t + 1
        /\ \A i \in 1..n_size : fwd.X_N[i] \in fwd.r

C2_Witness ==
    /\ step = "train"
    /\ fwd.stage = "returned"
    /\ n_size = 2
    /\ fwd.X_N[1] # fwd.X_N[2]
    /\ logged = <<"train_loss">>

\* C3: forward, given a sample of shape (B, C, T), returns a tensor of shape
\* (B, encoder_output_size), and predict_step returns the same.
C3_ForwardReturnsEncodings ==
    (fwd.stage = "returned") =>
        /\ fwd.X_N_shape = <<batch[1], encoder_output_size>>
        /\ step = "predict" => returned.shape = <<batch[1], encoder_output_size>>

\* C4: the model get_finetune_model builds depends on update_backbone: the
\* same experiment with the other value of update_backbone builds another model.
C4_FinetuneDependsOnUpdateBackbone ==
    (tnc_call = "get_finetune_model") =>
        tnc_model # get_finetune_model([tnc EXCEPT !.update_backbone = ~@],
                                       tnc_model.backbone.checkpoint)

\* C5: training_step, validation_step and test_step reject by assertion, before
\* forward is called and before any loss is logged, every batch whose length
\* is not 1 and every batch whose last dimension is <= 5 * window_size.
C5_RejectedBeforeForward ==
    (pc = "done" /\ step \in SharedSteps) =>
        /\ batch[1] # 1 =>
            /\ error = "AssertionError: Batch must be 1 sample only"
            /\ ~forward_called /\ logged = <<>> /\ loss = NoLoss
        /\ (batch[1] = 1 /\ batch[3] <= 5 * window_size) =>
            /\ error = "AssertionError: Sample too short"
            /\ ~forward_called /\ logged = <<>> /\ loss = NoLoss

C5_Witness ==
    /\ pc = "done"
    /\ step = "val"
    /\ batch[1] = 1
    /\ batch[3] = 5 * window_size
    /\ error = "AssertionError: Sample too short"

\* C6: every drawn random_t satisfies 2 <= random_t <= len(encodings) - 2;
\* past is the windows before it and future the windows after it, they are
\* disjoint, neither holds window random_t, and each has at least 2 elements.
C6_SplitPoint ==
    (fwd.random_t # Unset) =>
        LET n == fwd.encodings[1]
            t == fwd.random_t
        IN  /\ 2 <= t /\ t <= n - 2
            /\ fwd.past = {i \in 0..(n - 1) : i < t}
            /\ fwd.future = {i \in 0..(n - 1) : i > t}
            /\ fwd.past \cap fwd.future = {}
            /\ t \notin fwd.past \cup fwd.future
            /\ Cardinality(fwd.past) >= 2
            /\ Cardinality(fwd.future) >= 2

C6_Witness ==
    /\ fwd.stage = "returned"
    /\ Cardinality(fwd.future) = 2
    /\ fwd.random_t > 2

\* C7 as claimed: for an accepted (single-sample) batch the kept segment spans
\* 20 * window_size steps before and after random_centering_t and is split
\* into 40 windows of window_size steps.
C7_FortyWindows ==
    (batch[1] = 1 /\ fwd.X_ts # <<>>) =>
        /\ fwd.start = fwd.random_centering_t - 20 * window_size
        /\ fwd.stop = fwd.random_centering_t + 20 * window_size
        /\ fwd.X_ts = <<40, batch[2], window_size>>

\* C7 amended: for a single-sample batch the kept segment spans at most
\* 20 * window_size steps on each side of random_centering_t and is shorter
\* only where the sample ends; it is
\* split into floor(length / window_size) windows, between 10 and 40, each of
\* window_size steps; there are 40 exactly when the sample reaches
\* 20 * window_size steps on both sides.
C7_SegmentClamped ==
    (batch[1] = 1 /\ fwd.X_ts # <<>>) =>
        LET c == fwd.random_centering_t
            w == window_size
            k == (fwd.stop - fwd.start) \div w
        IN  /\ 0 <= fwd.start /\ fwd.start <= c /\ c < fwd.stop /\ fwd.stop <= batch[3]
            /\ c - fwd.start <= 20 * w
            /\ fwd.stop - c <= 20 * w
            /\ c - fwd.start < 20 * w => fwd.start = 0
            /\ fwd.stop - c < 20 * w => fwd.stop = batch[3]
            /\ fwd.time_len = fwd.stop - fwd.start
            /\ fwd.sample = <<batch[2], fwd.stop - fwd.start>>
            /\ fwd.X_ts = <<k, batch[2], w>>
            /\ 10 <= k /\ k <= 40
            /\ k = 40 <=> (20 * w <= c /\ c + 20 * w <= batch[3])

C7_Witness ==
    /\ batch[1] = 1
    /\ step \in SharedSteps
    /\ fwd.stage = "returned"
    /\ fwd.X_ts = <<40, batch[2], window_size>>
    /\ fwd.start > 0
    /\ fwd.stop < batch[3]

====
